---- MODULE Spec2Model ----
(***************************************************************************)
(* Victron Cloud integration: the remote data gateway (api.py), the metric  *)
(* catalog and sensor properties (sensors.py), the polling coordinator      *)
(* (coordinator.py), entry setup / reload (__init__.py) and the options     *)
(* flow (config_flow.py).                                                   *)
(*                                                                           *)
(* Scalars of a raw batch are modelled as records [k, n, d, s]:             *)
(*   k = "null"  Python None                                                *)
(*   k = "num"   a number, the exact rational n/d (d > 0, lowest terms)     *)
(*   k = "str"   a string, s its characters                                 *)
(* Floating point rounding is not modelled: arithmetic is exact.            *)
(***************************************************************************)
EXTENDS Integers, Sequences, FiniteSets, TLC

VARIABLES
    options,              \* entry.options: [sensors, scan_interval]
    entry_state,          \* config entry state kept by the host
    runtime_data,         \* entry.runtime_data
    hass_data,            \* hass.data[DOMAIN]: the entry ids that have a record
    descriptions,         \* the descriptor list built by async_setup_entry, by key
    attribute_ids,        \* coordinator.attribute_ids
    update_interval,      \* coordinator.update_interval, seconds
    data,                 \* coordinator.data: [set, map]
    last_update_success,  \* coordinator.last_update_success
    pc,                   \* "idle" | "first_refresh" | "refreshing"
    timer,                \* seconds until the scheduled refresh, NoTimer if none
    forwarded,            \* platforms forwarded for the entry
    entities,             \* sensors added by the sensor platform
    platform_error,       \* exception raised by the sensor platform setup
    listener,             \* options-update listener registered
    reload_pending,       \* an options update has called the listener
    setup_error,          \* exception async_setup_entry ended with, "" if none
    flow_result,          \* last result of the options flow step
    requested,            \* attribute ids of the last fetch issued
    last_gw,              \* how the last gateway call ended
    last_status,          \* the HTTP status of the last gateway call, 0 if none
    last_outcome,         \* how the last coordinator refresh ended
    last_good,            \* batch returned by the last successful refresh
    since_last,           \* seconds elapsed since the last refresh ended
    setup_options,        \* the options record the last setup read
    fn_in,                \* input of the pure-function harness
    fn_out,               \* its output
    fn_pc                 \* "off" | "ratio" | "series" | "map" | "<step>_done"

vars == <<options, entry_state, runtime_data, hass_data, descriptions,
          attribute_ids, update_interval, data, last_update_success, pc,
          timer, forwarded, entities, platform_error, listener,
          reload_pending, setup_error, flow_result, requested, last_gw,
          last_status, last_outcome, last_good, since_last, setup_options,
          fn_in, fn_out, fn_pc>>

sysVars == <<options, entry_state, runtime_data, hass_data, descriptions,
             attribute_ids, update_interval, data, last_update_success, pc,
             timer, forwarded, entities, platform_error, listener,
             reload_pending, setup_error, flow_result, requested, last_gw,
             last_status, last_outcome, last_good, since_last, setup_options>>

fnVars == <<fn_in, fn_out, fn_pc>>

-----------------------------------------------------------------------------
(* Bounds of the model *)

\* longest list of selected sensor keys enumerated (besides the default list)
MaxSelected == 2
\* longest time series enumerated for one attribute
MaxSeries == 2
\* largest timestamp of a series entry
MaxTime == 2
\* seconds by which one step of the clock advances
TimeStep == 30

-----------------------------------------------------------------------------
(* Scalars *)

Null == [k |-> "null", n |-> 0, d |-> 1, s |-> <<>>]

Abs(x) == IF x < 0 THEN -x ELSE x

RECURSIVE Gcd(_, _)
Gcd(a, b) == IF b = 0 THEN a ELSE Gcd(b, a % b)

\* the rational n/d in lowest terms with a positive denominator (d # 0)
Num(n, d) ==
    LET g == Gcd(Abs(n), Abs(d))
        sgn == IF d < 0 THEN -1 ELSE 1
    IN [k |-> "num", n |-> sgn * (n \div g), d |-> sgn * (d \div g), s |-> <<>>]

Str(chars) == [k |-> "str", n |-> 0, d |-> 1, s |-> chars]

Digits == <<"0", "1", "2", "3", "4", "5", "6", "7", "8", "9">>

IsDigit(c) == \E i \in 1..10 : Digits[i] = c

DigitVal(c) == (CHOOSE i \in 1..10 : Digits[i] = c) - 1

RECURSIVE DigitsValue(_)
DigitsValue(cs) ==
    IF cs = <<>> THEN 0
    ELSE 10 * DigitsValue(SubSeq(cs, 1, Len(cs) - 1)) + DigitVal(cs[Len(cs)])

RECURSIVE Pow10(_)
Pow10(e) == IF e = 0 THEN 1 ELSE 10 * Pow10(e - 1)

AllDigits(cs) == \A i \in 1..Len(cs) : IsDigit(cs[i])

\* Python float(str) on the strings of the model: an optional "-", digits,
\* an optional "." and more digits (at least one digit in all); anything
\* else raises ValueError, returned as Null with ok = FALSE.
ParseFloat(chars) ==
    LET neg == chars # <<>> /\ chars[1] = "-"
        body == IF neg THEN SubSeq(chars, 2, Len(chars)) ELSE chars
        dots == {i \in 1..Len(body) : body[i] = "."}
        dot == IF dots = {} THEN Len(body) + 1 ELSE CHOOSE i \in dots : TRUE
        ip == SubSeq(body, 1, dot - 1)
        fp == SubSeq(body, dot + 1, Len(body))
        good == /\ Cardinality(dots) <= 1
                /\ AllDigits(ip) /\ AllDigits(fp)
                /\ Len(ip) + Len(fp) >= 1
        mag == DigitsValue(ip) * Pow10(Len(fp)) + DigitsValue(fp)
    IN IF good
       THEN [ok |-> TRUE, v |-> Num(IF neg THEN -mag ELSE mag, Pow10(Len(fp)))]
       ELSE [ok |-> FALSE, v |-> Null]

\* Python float(x): a number converts to itself, a string is parsed,
\* None raises TypeError
ToFloat(x) ==
    CASE x.k = "num" -> [ok |-> TRUE, v |-> x]
      [] x.k = "str" -> ParseFloat(x.s)
      [] OTHER -> [ok |-> FALSE, v |-> Null]

\* Python int(str) on a mapping key: digits with an optional "-"
ParseInt(chars) ==
    LET neg == chars # <<>> /\ chars[1] = "-"
        body == IF neg THEN SubSeq(chars, 2, Len(chars)) ELSE chars
    IN IF body # <<>> /\ AllDigits(body)
       THEN [ok |-> TRUE, v |-> IF neg THEN -DigitsValue(body) ELSE DigitsValue(body)]
       ELSE [ok |-> FALSE, v |-> 0]

IsZero(x) == x.k = "num" /\ x.n = 0

RatDiv(a, b) == Num(a.n * b.d, a.d * b.n)

RatMul(a, b) == Num(a.n * b.n, a.d * b.d)

\* dict.get(key): the value stored, None when the key is absent
Get(batch, id) == IF id \in DOMAIN batch THEN batch[id] ELSE Null

-----------------------------------------------------------------------------
(* sensors.py: derivation functions *)

\* a state label, held whole in the one element of s
Label(text) == [k |-> "str", n |-> 0, d |-> 1, s |-> <<text>>]

NoAttr == 0

BATTERY_STATE_MAP ==
    [c \in {0, 2, 3, 4, 5, 6, 7, 245, 247, 252} |->
        CASE c = 0 -> "Off" [] c = 2 -> "Fault" [] c = 3 -> "Bulk"
          [] c = 4 -> "Absorption" [] c = 5 -> "Float" [] c = 6 -> "Storage"
          [] c = 7 -> "Equalize" [] c = 245 -> "Off" [] c = 247 -> "Equalize"
          [] OTHER -> "Ext. Control"]

LOAD_STATE_MAP ==
    [c \in {0, 1, 2} |-> CASE c = 0 -> "Off" [] c = 1 -> "On" [] OTHER -> "Fault"]

StateTable(name) == IF name = "battery" THEN BATTERY_STATE_MAP ELSE LOAD_STATE_MAP

\* _calculate_ratio with the guard on the numerator alone (faulty variant)
RatioNoDenominatorGuard(numerator, denominator, batch) ==
    LET num == Get(batch, numerator)
        den == Get(batch, denominator)
        fn == ToFloat(num)
        fd == ToFloat(den)
    IN IF num = Null THEN Null
       ELSE IF ~fn.ok \/ ~fd.ok THEN Null
       ELSE IF IsZero(fd.v) THEN Num(0, 1)
       ELSE RatDiv(fn.v, fd.v)

_calculate_ratio(numerator, denominator, batch) ==
    LET num == Get(batch, numerator)
        den == Get(batch, denominator)
        fn == ToFloat(num)
        fd == ToFloat(den)
    IN IF num = Null \/ den = Null \/ IsZero(den) THEN Null
       ELSE IF ~fn.ok \/ ~fd.ok THEN Null          \* TypeError, ValueError
       ELSE IF IsZero(fd.v) THEN Null               \* ZeroDivisionError
       ELSE RatDiv(fn.v, fd.v)

_calculate_product(factor_a, factor_b, batch) ==
    LET a == Get(batch, factor_a)
        b == Get(batch, factor_b)
        fa == ToFloat(a)
        fb == ToFloat(b)
    IN IF a = Null \/ b = Null THEN Null
       ELSE IF ~fa.ok \/ ~fb.ok THEN Null
       ELSE RatMul(fa.v, fb.v)

\* Python int(x): a number is truncated towards zero, a string is parsed
ToInt(x) ==
    CASE x.k = "num" ->
            [ok |-> TRUE, v |-> (IF x.n < 0 THEN -1 ELSE 1) * (Abs(x.n) \div x.d)]
      [] x.k = "str" -> ParseInt(x.s)
      [] OTHER -> [ok |-> FALSE, v |-> 0]

\* (faulty variant) the table is read without the "Unknown" default
MapStateNoDefault(mapping, attribute_id, batch) ==
    LET raw == Get(batch, attribute_id)
        i == ToInt(raw)
    IN IF raw = Null THEN Null
       ELSE IF ~i.ok THEN Label("Unknown")
       ELSE IF i.v \in DOMAIN mapping THEN Label(mapping[i.v])
       ELSE Null

_map_state(mapping, attribute_id, batch) ==
    LET raw == Get(batch, attribute_id)
        i == ToInt(raw)
    IN IF raw = Null THEN Null
       ELSE IF ~i.ok THEN Label("Unknown")
       ELSE IF i.v \in DOMAIN mapping THEN Label(mapping[i.v])
       ELSE Label("Unknown")

-----------------------------------------------------------------------------
(* sensors.py: the catalog *)

Desc(key, name, unit, attribute_id, req, fn, args, table) ==
    [key |-> key, name |-> name, unit |-> unit, attribute_id |-> attribute_id,
     requires |-> req, value_fn |-> fn, args |-> args, table |-> table,
     available_fn |-> "none"]

SENSOR_DESCRIPTIONS == <<
    Desc("solar_power", "Victron Solar Power", "W", 442, <<>>, "none", <<>>, ""),
    Desc("solar_voltage", "Victron Solar Voltage", "V", 86, <<>>, "none", <<>>, ""),
    Desc("solar_current", "Victron Solar Current", "A", NoAttr, <<442, 86>>,
         "ratio", <<442, 86>>, ""),
    Desc("battery_current", "Victron Battery Current", "A", 82, <<>>, "none", <<>>, ""),
    Desc("battery_voltage", "Victron Battery Voltage", "V", 81, <<>>, "none", <<>>, ""),
    Desc("battery_state", "Victron Battery State", "", 85, <<>>, "map", <<85>>,
         "battery"),
    Desc("battery_power", "Victron Battery Power", "W", NoAttr, <<81, 82>>,
         "product", <<81, 82>>, ""),
    Desc("load_current", "Victron Load Current", "A", 242, <<>>, "none", <<>>, ""),
    Desc("load_state", "Victron Load State", "", 241, <<>>, "map", <<241>>, "load"),
    Desc("load_power", "Victron Load Power", "W", NoAttr, <<81, 242>>,
         "product", <<81, 242>>, ""),
    Desc("solar_energy_today", "Victron Solar Energy Today", "kWh", 94, <<>>,
         "none", <<>>, "") >>

Range(seq) == {seq[i] : i \in 1..Len(seq)}

SensorKeys == {SENSOR_DESCRIPTIONS[i].key : i \in 1..Len(SENSOR_DESCRIPTIONS)}

\* SENSOR_MAP[key]
SENSOR_MAP(key) ==
    SENSOR_DESCRIPTIONS[CHOOSE i \in 1..Len(SENSOR_DESCRIPTIONS) :
                            SENSOR_DESCRIPTIONS[i].key = key]

DEFAULT_SENSOR_KEYS ==
    [i \in 1..Len(SENSOR_DESCRIPTIONS) |-> SENSOR_DESCRIPTIONS[i].key]

\* description.value_fn(data)
value_fn(desc, batch) ==
    CASE desc.value_fn = "ratio" -> _calculate_ratio(desc.args[1], desc.args[2], batch)
      [] desc.value_fn = "product" ->
            _calculate_product(desc.args[1], desc.args[2], batch)
      [] OTHER -> _map_state(StateTable(desc.table), desc.args[1], batch)

-----------------------------------------------------------------------------
(* sensors.py: VictronSensor properties, read on coordinator.data *)

native_value(desc, batch) ==
    IF desc.value_fn # "none" THEN value_fn(desc, batch)
    ELSE IF desc.attribute_id = NoAttr THEN Null
    ELSE Get(batch, desc.attribute_id)

\* CoordinatorEntity.available, the base class property
super_available(lus) == lus

\* (faulty variant) an attribute-backed sensor also asks the coordinator
AvailableWithCoordinator(desc, batch, lus) ==
    IF desc.available_fn # "none" THEN TRUE
    ELSE IF desc.attribute_id # NoAttr
    THEN /\ super_available(lus)
         /\ desc.attribute_id \in DOMAIN batch /\ batch[desc.attribute_id] # Null
    ELSE super_available(lus)

\* no descriptor of the catalog sets available_fn, so its branch is never taken
available(desc, batch, lus) ==
    IF desc.available_fn # "none" THEN TRUE
    ELSE IF desc.attribute_id # NoAttr
    THEN desc.attribute_id \in DOMAIN batch /\ batch[desc.attribute_id] # Null
    ELSE super_available(lus)

extra_state_attributes(desc, batch) ==
    IF desc.attribute_id # NoAttr
    THEN [has |-> TRUE, attribute_id |-> desc.attribute_id,
          raw_value |-> Get(batch, desc.attribute_id)]
    ELSE [has |-> FALSE, attribute_id |-> NoAttr, raw_value |-> Null]

-----------------------------------------------------------------------------
(* api.py: the remote response and the gateway *)

\* a JSON list of scalars (list = TRUE) or some other JSON value (list = FALSE)
Entry(isList, items) == [list |-> isList, items |-> items]

Pair(t, v) == Entry(TRUE, <<Num(t, 1), v>>)

\* the JSON value stored for one attribute: a list of entries, or not a list
Series(isList, items) == [list |-> isList, items |-> items]

Item(key, values) == [key |-> key, values |-> values]

\* What the remote answers to one GET:
\*   net     "ok" | "conn_error" | "sock_timeout" | "total_timeout"
\*   status  the HTTP status
\*   body    "object" | "list" | "invalid" (not JSON)
\*   records "object" | "list" | "missing"
\*   dkind   "object" | "list" | "missing", the shape of records["data"]
\*   data    the items of records["data"], in order
Resp(net, status, body, records, dkind, items) ==
    [net |-> net, status |-> status, body |-> body, records |-> records,
     dkind |-> dkind, data |-> items]

EmptyBatch == [x \in {} |-> Null]

Put(batch, id, v) ==
    [x \in DOMAIN batch \cup {id} |-> IF x = id THEN v ELSE batch[x]]

\* LatestValue taking the entry with the greatest timestamp (faulty variant)
LatestByTimestamp(values) ==
    IF values.list /\ values.items # <<>>
    THEN LET its == values.items
             best == CHOOSE i \in 1..Len(its) :
                        \A j \in 1..Len(its) :
                            its[j].items[1].n * its[i].items[1].d
                                <= its[i].items[1].n * its[j].items[1].d
         IN its[best].items[2]
    ELSE Null

\* the body of the loop: latest_value of one attribute's series
LatestValue(values) ==
    IF values.list /\ values.items # <<>>
    THEN LET last_entry == values.items[Len(values.items)]
         IN IF last_entry.list /\ Len(last_entry.items) >= 2
            THEN last_entry.items[2]
            ELSE Null
    ELSE Null

\* for attribute_id, values in data.items(): keys that int() rejects are skipped
RECURSIVE BuildLatest(_, _)
BuildLatest(items, acc) ==
    IF items = <<>> THEN acc
    ELSE LET key == ParseInt(items[1].key)
             rest == SubSeq(items, 2, Len(items))
         IN IF key.ok
            THEN BuildLatest(rest, Put(acc, key.v, LatestValue(items[1].values)))
            ELSE BuildLatest(rest, acc)

\* the exception the "async with session.get(...)" block ends with, "" if none
RequestException(resp) ==
    CASE resp.net = "conn_error" -> "ClientConnectionError"
      [] resp.net = "sock_timeout" -> "ServerTimeoutError"
      [] resp.net = "total_timeout" -> "TimeoutError"
      [] resp.status >= 400 -> "ClientResponseError"       \* raise_for_status
      [] resp.body = "invalid" -> "JSONDecodeError"        \* response.json()
      [] OTHER -> ""

IsClientResponseError(exc) == exc = "ClientResponseError"

IsClientError(exc) ==
    exc \in {"ClientResponseError", "ClientConnectionError", "ServerTimeoutError"}

Raise(exc) == [raised |-> exc, value |-> EmptyBatch]

Return(batch) == [raised |-> "", value |-> batch]

async_get_latest_values(resp) ==
    LET exc == RequestException(resp)
    IN IF IsClientResponseError(exc)
       THEN IF resp.status \in {401, 403}
            THEN Raise("VictronApiAuthError")
            ELSE Raise("VictronApiError")
       ELSE IF IsClientError(exc) THEN Raise("VictronApiError")
       ELSE IF exc # "" THEN Raise(exc)
       ELSE IF resp.body # "object" THEN Raise("AttributeError")  \* payload.get
       ELSE IF resp.records = "list" THEN Raise("VictronApiError")
       ELSE IF resp.records = "missing" \/ resp.dkind # "object"
       THEN Raise("VictronApiError")
       ELSE Return(BuildLatest(resp.data, EmptyBatch))

-----------------------------------------------------------------------------
(* coordinator.py *)

IsVictronApiAuthError(exc) == exc = "VictronApiAuthError"

\* VictronApiAuthError is a subclass of VictronApiError
IsVictronApiError(exc) == exc \in {"VictronApiError", "VictronApiAuthError"}

\* _async_update_data with the two except clauses in the other order (faulty variant)
UpdateDataBaseClassFirst(resp) ==
    LET r == async_get_latest_values(resp)
    IN IF IsVictronApiError(r.raised) THEN Raise("UpdateFailed")
       ELSE IF IsVictronApiAuthError(r.raised) THEN Raise("ConfigEntryAuthFailed")
       ELSE r

_async_update_data(resp) ==
    LET r == async_get_latest_values(resp)
    IN IF IsVictronApiAuthError(r.raised) THEN Raise("ConfigEntryAuthFailed")
       ELSE IF IsVictronApiError(r.raised) THEN Raise("UpdateFailed")
       ELSE r

-----------------------------------------------------------------------------
(* __init__.py: what async_setup_entry computes from entry.options *)

DEFAULT_SCAN_INTERVAL == 60

NoTimer == -1

Unset == [set |-> FALSE, keys |-> <<>>]

Keys(list) == [set |-> TRUE, keys |-> list]

NoInterval == [kind |-> "unset", v |-> 0]

IntInterval(v) == [kind |-> "int", v |-> v]

Options(sensors, interval) == [sensors |-> sensors, scan_interval |-> interval]

IsKnownKey(key) == key \in SensorKeys

\* A list of catalog descriptors is held as the list of their keys and read
\* through SENSOR_MAP: the catalog objects are immutable and one per key.

\* the descriptor list without the fallback to the default keys (faulty variant)
DescriptionsNoFallback(opts) ==
    LET selected_keys == IF opts.sensors.set THEN opts.sensors.keys
                         ELSE DEFAULT_SENSOR_KEYS
    IN SelectSeq(selected_keys, IsKnownKey)

\* lines 41-44: descriptions
BuildDescriptions(opts) ==
    LET selected_keys == IF opts.sensors.set THEN opts.sensors.keys
                         ELSE DEFAULT_SENSOR_KEYS
        found == SelectSeq(selected_keys, IsKnownKey)
    IN IF found = <<>> THEN DEFAULT_SENSOR_KEYS ELSE found

\* sorted(set)
RECURSIVE Sorted(_)
Sorted(S) ==
    IF S = {} THEN <<>>
    ELSE LET m == CHOOSE x \in S : \A y \in S : x <= y
         IN <<m>> \o Sorted(S \ {m})

\* the attribute ids of the direct attribute alone (faulty variant)
AttributeIdsDirectOnly(descs) ==
    Sorted({SENSOR_MAP(descs[i]).attribute_id : i \in 1..Len(descs)} \ {NoAttr})

\* lines 48-53: attribute_ids
AttributeIds(descs) ==
    Sorted(({SENSOR_MAP(descs[i]).attribute_id : i \in 1..Len(descs)} \ {NoAttr})
           \cup UNION {Range(SENSOR_MAP(descs[i]).requires) : i \in 1..Len(descs)})

\* lines 55-61: scan_interval in seconds
ScanInterval(opts) ==
    IF opts.scan_interval.kind = "int" THEN opts.scan_interval.v
    ELSE DEFAULT_SCAN_INTERVAL

\* coordinator.py: interval = update_interval or DEFAULT_SCAN_INTERVAL
CoordinatorInterval(seconds) ==
    IF seconds = 0 THEN DEFAULT_SCAN_INTERVAL ELSE seconds

NoRuntime == [stored |-> FALSE, descriptions |-> <<>>]

VictronRuntimeData(descs) == [stored |-> TRUE, descriptions |-> descs]

NoData == [set |-> FALSE, map |-> EmptyBatch]

Batch(map) == [set |-> TRUE, map |-> map]

ENTRY_ID == "entry"

-----------------------------------------------------------------------------
(* Inputs the model enumerates *)

\* the keys the enumerated selections are made of: a direct, a ratio, a
\* product and a lookup-table metric, their inputs, and a key of no metric
KeyUniverse ==
    <<"solar_current", "battery_voltage", "battery_state", "battery_power",
      "unknown_metric">>

\* the lists of at most MaxSelected keys of KeyUniverse, in catalog order
OrderedLists ==
    LET Idx == UNION {[1..n -> 1..Len(KeyUniverse)] : n \in 0..MaxSelected}
        Inc == {f \in Idx : \A i \in 1..Len(f) - 1 : f[i] < f[i + 1]}
    IN {[i \in 1..Len(f) |-> KeyUniverse[f[i]]] : f \in Inc}

SelectedLists ==
    OrderedLists \cup
    {DEFAULT_SENSOR_KEYS,
     <<"load_power", "battery_voltage", "load_power">>,
     <<"unknown_metric", "other_unknown">>}

StoredIntervals == {NoInterval, IntInterval(30), IntInterval(60)}

\* the options records a configuration entry may hold when it is first set up
StoredOptions ==
    {Options(Keys(l), NoInterval) : l \in SelectedLists}
    \cup {Options(Unset, iv) : iv \in StoredIntervals}

\* what the user submits to the options flow (has = FALSE: no input yet)
UserInput(has, sensors, interval) ==
    [has |-> has, sensors |-> sensors, scan_interval |-> interval]

\* the submitted interval is the number the form's selector hands over
FlowInputs ==
    {UserInput(FALSE, <<>>, Null),
     UserInput(TRUE, <<>>, Num(30, 1)),
     UserInput(TRUE, <<"unknown_metric">>, Num(60, 1)),
     UserInput(TRUE, <<"battery_voltage">>, Num(20, 1)),
     UserInput(TRUE, <<"solar_current", "unknown_metric">>, Num(61, 2)),
     UserInput(TRUE, <<"battery_voltage", "battery_power">>, Num(60, 1))}

OkResp(items) == Resp("ok", 200, "object", "object", "object", items)

Responses ==
    { \* the batch {81: 12.6, 82: 5.0}
      OkResp(<<Item(<<"8", "1">>, Series(TRUE, <<Pair(1, Num(126, 10))>>)),
               Item(<<"8", "2">>, Series(TRUE, <<Pair(1, Num(5, 1))>>))>>),
      \* timestamps out of order, a zero denominator, an empty series, a key
      \* that is no integer, a string value, a series that is no list
      OkResp(<<Item(<<"4", "4", "2">>,
                    Series(TRUE, <<Pair(2, Num(100, 1)), Pair(1, Num(50, 1))>>)),
               Item(<<"8", "6">>, Series(TRUE, <<Pair(1, Num(0, 1))>>)),
               Item(<<"8", "5">>, Series(TRUE, <<Pair(1, Num(3, 1))>>)),
               Item(<<"2", "4", "1">>, Series(TRUE, <<>>)),
               Item(<<"x">>, Series(TRUE, <<Pair(1, Num(1, 1))>>)),
               Item(<<"9", "4">>, Series(TRUE, <<Pair(1, Str(<<"a", "b">>))>>)),
               Item(<<"8", "1">>, Series(FALSE, <<>>))>>),
      \* every attribute of the catalog, one with a null value
      OkResp(<<Item(<<"4", "4", "2">>, Series(TRUE, <<Pair(1, Str(<<"1", "0">>))>>)),
               Item(<<"8", "6">>, Series(TRUE, <<Pair(1, Num(4, 1))>>)),
               Item(<<"8", "1">>, Series(TRUE, <<Pair(1, Num(12, 1))>>)),
               Item(<<"8", "2">>, Series(TRUE, <<Pair(1, Num(-3, 2))>>)),
               Item(<<"8", "5">>, Series(TRUE, <<Pair(1, Num(999, 1))>>)),
               Item(<<"2", "4", "2">>, Series(TRUE, <<Pair(1, Null)>>)),
               Item(<<"2", "4", "1">>, Series(TRUE, <<Pair(1, Num(1, 1))>>)),
               Item(<<"9", "4">>, Series(TRUE, <<Pair(1, Num(7, 2))>>))>>),
      Resp("ok", 401, "object", "object", "object", <<>>),
      Resp("ok", 403, "object", "object", "object", <<>>),
      Resp("ok", 500, "object", "object", "object", <<>>),
      Resp("conn_error", 200, "object", "object", "object", <<>>),
      Resp("sock_timeout", 200, "object", "object", "object", <<>>),
      Resp("total_timeout", 200, "object", "object", "object", <<>>),
      Resp("ok", 200, "invalid", "missing", "missing", <<>>),
      Resp("ok", 200, "list", "missing", "missing", <<>>),
      Resp("ok", 200, "object", "list", "missing", <<>>),
      Resp("ok", 200, "object", "object", "missing", <<>>),
      Resp("ok", 200, "object", "object", "list", <<>>),
      OkResp(<<>>) }

-----------------------------------------------------------------------------
(* sensors.py: the platform's async_setup_entry *)

VictronSensor(coordinator, desc) == [coordinator |-> coordinator, description |-> desc]

NoHassData == [e \in {} |-> [coordinator |-> "", descriptions |-> <<>>]]

\* data = hass.data[DOMAIN][entry.entry_id] raises KeyError when nothing is
\* stored under the entry id
SensorPlatformSetup(hd) ==
    IF ENTRY_ID \in DOMAIN hd
    THEN [error |-> "",
          entities |-> [i \in 1..Len(hd[ENTRY_ID].descriptions) |->
                            VictronSensor(hd[ENTRY_ID].coordinator,
                                          hd[ENTRY_ID].descriptions[i])]]
    ELSE [error |-> "KeyError", entities |-> <<>>]

-----------------------------------------------------------------------------
(* The refresh cycle of the coordinator *)

\* coordinator.data cleared by a failed refresh (faulty variant)
\* (faulty variant) the entries of a new batch are written into the cached one
DataMergedOnSuccess(r, old) ==
    IF r.raised = ""
    THEN Batch([i \in DOMAIN old.map \cup DOMAIN r.value |->
                    IF i \in DOMAIN r.value THEN r.value[i] ELSE old.map[i]])
    ELSE old

DataDroppedOnFailure(r, old) == IF r.raised = "" THEN Batch(r.value) ELSE NoData

\* coordinator.data after a refresh: the returned batch, or on an exception
\* the batch it held
DataAfterRefresh(r, old) == IF r.raised = "" THEN Batch(r.value) ELSE old

\* the refresh timer after a scheduled refresh: one update interval, and none
\* once re-authentication is required
TimerAfterRefresh(r, interval) ==
    IF r.raised = "ConfigEntryAuthFailed" THEN NoTimer ELSE interval

\* how a refresh ended
Outcome(r) == IF r.raised = "" THEN "success" ELSE r.raised

\* entry.runtime_data assigned ahead of the first refresh (faulty variant)
RuntimeStoredBeforeRefresh(r, descs, old) == VictronRuntimeData(descs)

\* lines 71-76: runtime_data is assigned after the first refresh returned
RuntimeAfterFirstRefresh(r, descs, old) ==
    IF r.raised = "" THEN VictronRuntimeData(descs) ELSE old

\* async_config_entry_first_refresh: the error a failed first refresh raises
FirstRefreshError(r) ==
    CASE r.raised = "" -> ""
      [] r.raised = "ConfigEntryAuthFailed" -> "ConfigEntryAuthFailed"
      [] OTHER -> "ConfigEntryNotReady"

-----------------------------------------------------------------------------
(* Initial state: the component is set up (hass.data[DOMAIN] = {}), the      *)
(* entry exists and is not loaded                                            *)

FnIdle == [batch |-> EmptyBatch, values |-> Series(TRUE, <<>>), key |-> ""]

\* no step of the options flow has run
NoFlowResult == [type |-> "", error |-> "", user_input |-> UserInput(FALSE, <<>>, Null)]

SysInit ==
    /\ entry_state = "not_loaded"
    /\ runtime_data = NoRuntime
    /\ hass_data = NoHassData
    /\ descriptions = <<>>
    /\ attribute_ids = <<>>
    /\ update_interval = 0
    /\ data = NoData
    /\ last_update_success = TRUE
    /\ pc = "idle"
    /\ timer = NoTimer
    /\ forwarded = {}
    /\ entities = <<>>
    /\ platform_error = ""
    /\ listener = FALSE
    /\ reload_pending = FALSE
    /\ setup_error = ""
    /\ flow_result = NoFlowResult
    /\ requested = <<>>
    /\ last_gw = ""
    /\ last_status = 0
    /\ last_outcome = ""
    /\ last_good = NoData
    /\ since_last = 0

Init ==
    /\ options \in StoredOptions
    /\ setup_options = options
    /\ SysInit
    /\ fn_in = FnIdle
    /\ fn_out = Null
    /\ fn_pc = "off"

-----------------------------------------------------------------------------
(* __init__.py: async_setup_entry up to the await of the first refresh *)

CreateCoordinator ==
    /\ descriptions' = BuildDescriptions(options)
    /\ attribute_ids' = AttributeIds(descriptions')
    /\ update_interval' = CoordinatorInterval(ScanInterval(options))
    /\ data' = NoData
    /\ last_update_success' = TRUE
    /\ setup_options' = options
    /\ setup_error' = ""
    /\ entry_state' = "setup_in_progress"
    /\ pc' = "first_refresh"
    /\ requested' = attribute_ids'
    /\ timer' = NoTimer
    /\ since_last' = 0
    /\ last_good' = NoData

SetupBegin ==
    /\ entry_state \in {"not_loaded", "setup_retry", "setup_error"}
    /\ pc = "idle"
    /\ CreateCoordinator
    /\ UNCHANGED <<options, runtime_data, hass_data, forwarded, entities,
                   platform_error, listener, reload_pending, flow_result,
                   last_gw, last_status, last_outcome>>
    /\ UNCHANGED fnVars

\* the first refresh returns: async_setup_entry runs to its end
FirstRefreshReturn(resp) ==
    /\ pc = "first_refresh"
    /\ LET r == _async_update_data(resp)
           ok == r.raised = ""
           platform == SensorPlatformSetup(hass_data)
       IN /\ last_status' = IF resp.net = "ok" THEN resp.status ELSE 0
          /\ last_gw' = Outcome(async_get_latest_values(resp))
          /\ last_outcome' = Outcome(r)
          /\ data' = DataAfterRefresh(r, data)
          /\ last_update_success' = ok
          /\ last_good' = IF ok THEN Batch(r.value) ELSE last_good
          /\ setup_error' = FirstRefreshError(r)
          /\ runtime_data' = RuntimeAfterFirstRefresh(r, descriptions, runtime_data)
          /\ forwarded' = IF ok THEN {"sensor"} ELSE forwarded
          /\ entities' = IF ok THEN platform.entities ELSE entities
          /\ platform_error' = IF ok THEN platform.error ELSE platform_error
          /\ listener' = IF ok THEN TRUE ELSE listener
          /\ entry_state' = CASE ok -> "loaded"
                              [] r.raised = "ConfigEntryAuthFailed" -> "setup_error"
                              [] OTHER -> "setup_retry"
          /\ timer' = IF ok THEN update_interval ELSE NoTimer
    /\ pc' = "idle"
    /\ since_last' = 0
    /\ UNCHANGED <<options, hass_data, descriptions, attribute_ids,
                   update_interval, reload_pending, flow_result, requested,
                   setup_options>>
    /\ UNCHANGED fnVars

-----------------------------------------------------------------------------
(* Scheduled refreshes *)

Min(a, b) == IF a < b THEN a ELSE b

\* time passes while the refresh timer runs
Tick ==
    /\ entry_state = "loaded"
    /\ pc = "idle"
    /\ timer > 0
    /\ timer' = timer - Min(TimeStep, timer)
    /\ since_last' = since_last + Min(TimeStep, timer)
    /\ UNCHANGED <<options, entry_state, runtime_data, hass_data, descriptions,
                   attribute_ids, update_interval, data, last_update_success,
                   pc, forwarded, entities, platform_error, listener,
                   reload_pending, setup_error, flow_result, requested, last_gw,
                   last_status, last_outcome, last_good, setup_options>>
    /\ UNCHANGED fnVars

\* the timer fires: the coordinator issues a fetch for its attribute ids
ScheduledRefresh ==
    /\ entry_state = "loaded"
    /\ pc = "idle"
    /\ timer = 0
    /\ pc' = "refreshing"
    /\ requested' = attribute_ids
    /\ timer' = NoTimer
    /\ UNCHANGED <<options, entry_state, runtime_data, hass_data, descriptions,
                   attribute_ids, update_interval, data, last_update_success,
                   forwarded, entities, platform_error, listener,
                   reload_pending, setup_error, flow_result, last_gw,
                   last_status, last_outcome, last_good, since_last,
                   setup_options>>
    /\ UNCHANGED fnVars

\* the fetch of a scheduled refresh returns
RefreshReturn(resp) ==
    /\ pc = "refreshing"
    /\ LET r == _async_update_data(resp)
           ok == r.raised = ""
       IN /\ last_status' = IF resp.net = "ok" THEN resp.status ELSE 0
          /\ last_gw' = Outcome(async_get_latest_values(resp))
          /\ last_outcome' = Outcome(r)
          /\ data' = DataAfterRefresh(r, data)
          /\ last_update_success' = ok
          /\ last_good' = IF ok THEN Batch(r.value) ELSE last_good
          /\ timer' = TimerAfterRefresh(r, update_interval)
    /\ pc' = "idle"
    /\ since_last' = 0
    /\ UNCHANGED <<options, entry_state, runtime_data, hass_data, descriptions,
                   attribute_ids, update_interval, forwarded, entities,
                   platform_error, listener, reload_pending, setup_error,
                   flow_result, requested, setup_options>>
    /\ UNCHANGED fnVars

-----------------------------------------------------------------------------
(* config_flow.py: VictronOptionsFlowHandler.async_step_user *)

FlowForm(error) == [type |-> "form", error |-> error, data |-> Options(Unset, NoInterval)]

FlowCreateEntry(record) == [type |-> "create_entry", error |-> "", data |-> record]

\* (faulty variant) the submitted interval is stored without the minimum
StepUserNoMinimum(user_input) ==
    IF user_input.has
    THEN LET selected_sensors ==
                 IF user_input.sensors # <<>>
                 THEN SelectSeq(user_input.sensors, IsKnownKey)
                 ELSE user_input.sensors
             scan_interval == ToInt(user_input.scan_interval).v
         IN IF selected_sensors = <<>> THEN FlowForm("select_sensor")
            ELSE FlowCreateEntry(Options(Keys(selected_sensors),
                                         IntInterval(scan_interval)))
    ELSE FlowForm("")

\* (faulty variant) the submitted keys are stored without the catalog filter
StepUserNoCatalogFilter(user_input) ==
    IF user_input.has
    THEN LET selected_sensors == user_input.sensors
             scan_interval == ToInt(user_input.scan_interval).v
         IN IF selected_sensors = <<>> THEN FlowForm("select_sensor")
            ELSE IF scan_interval < 30 THEN FlowForm("interval_too_short")
            ELSE FlowCreateEntry(Options(Keys(selected_sensors),
                                         IntInterval(scan_interval)))
    ELSE FlowForm("")

async_step_user(user_input) ==
    IF user_input.has
    THEN LET selected_sensors ==
                 IF user_input.sensors # <<>>
                 THEN SelectSeq(user_input.sensors, IsKnownKey)
                 ELSE user_input.sensors
             scan_interval == ToInt(user_input.scan_interval).v
         IN IF selected_sensors = <<>> THEN FlowForm("select_sensor")
            ELSE IF scan_interval < 30 THEN FlowForm("interval_too_short")
            ELSE FlowCreateEntry(Options(Keys(selected_sensors),
                                         IntInterval(scan_interval)))
    ELSE FlowForm("")

\* One step of the options flow. A created entry replaces entry.options, and
\* the registered update listener is called when the options changed.
OptionsFlowStep(user_input) ==
    /\ LET res == async_step_user(user_input)
       IN /\ flow_result' = [type |-> res.type, error |-> res.error,
                              user_input |-> user_input]
          /\ options' = IF res.type = "create_entry" THEN res.data ELSE options
          /\ reload_pending' =
                (reload_pending \/ (listener /\ options' # options))
    /\ UNCHANGED <<entry_state, runtime_data, hass_data, descriptions,
                   attribute_ids, update_interval, data, last_update_success,
                   pc, timer, forwarded, entities, platform_error, listener,
                   setup_error, requested, last_gw, last_status, last_outcome,
                   last_good, since_last, setup_options>>
    /\ UNCHANGED fnVars

-----------------------------------------------------------------------------
(* __init__.py: _async_update_listener reloads the entry: async_unload_entry,  *)
(* then async_setup_entry up to its first refresh                            *)

Reload ==
    /\ reload_pending
    /\ entry_state = "loaded"
    /\ reload_pending' = FALSE
    /\ runtime_data' = NoRuntime
    /\ forwarded' = {}
    /\ entities' = <<>>
    /\ platform_error' = ""
    /\ listener' = FALSE
    /\ CreateCoordinator
    /\ UNCHANGED <<options, hass_data, flow_result, last_gw, last_status,
                   last_outcome>>
    /\ UNCHANGED fnVars

-----------------------------------------------------------------------------
(* The system *)

Next ==
    \/ SetupBegin
    \/ \E resp \in Responses : FirstRefreshReturn(resp)
    \/ Tick
    \/ ScheduledRefresh
    \/ \E resp \in Responses : RefreshReturn(resp)
    \/ \E user_input \in FlowInputs : OptionsFlowStep(user_input)
    \/ Reload

Spec == Init /\ [][Next]_vars

-----------------------------------------------------------------------------
(* The derivation and extraction functions applied to enumerated inputs *)

FnValues ==
    {Null, Num(0, 1), Num(3, 1), Num(-1, 2), Str(<<"0">>), Str(<<"2">>),
     Str(<<"1", ".", "5">>), Str(<<"a">>), Str(<<>>)}

\* the raw batches over the attributes of solar_current
FnBatches ==
    UNION {[ids -> FnValues] : ids \in SUBSET {442, 86}}

SeriesValues == {Null, Num(1, 1), Num(5, 2)}

FnEntries == {Pair(t, v) : t \in 1..MaxTime, v \in SeriesValues}

FnSeries ==
    {Series(TRUE, es) : es \in UNION {[1..n -> FnEntries] : n \in 0..MaxSeries}}

\* the descriptors that read a lookup table
StateKeys == {"battery_state", "load_state"}

StateValues ==
    {Null, Num(0, 1), Num(1, 1), Num(3, 1), Num(999, 1), Num(252, 1), Num(5, 2),
     Num(-1, 2), Num(-1, 1), Str(<<"3">>), Str(<<"1">>), Str(<<"3", ".", "0">>),
     Str(<<"a">>), Str(<<>>)}

\* the raw batches over the attribute of a lookup-table descriptor, next to
\* an attribute the descriptor does not read
StateBatches(attribute_id) ==
    UNION {[ids -> StateValues] : ids \in {{}, {attribute_id}, {81}}}
        \cup {[i \in {attribute_id, 81} |-> IF i = 81 THEN Num(3, 1) ELSE v] :
                    v \in StateValues}

FnInit ==
    /\ options = Options(Keys(DEFAULT_SENSOR_KEYS), IntInterval(DEFAULT_SCAN_INTERVAL))
    /\ setup_options = options
    /\ SysInit
    /\ fn_out = Null
    /\ \/ /\ fn_pc = "ratio"
          /\ \E b \in FnBatches : fn_in = [FnIdle EXCEPT !.batch = b]
       \/ /\ fn_pc = "series"
          /\ \E sr \in FnSeries : fn_in = [FnIdle EXCEPT !.values = sr]
       \/ /\ fn_pc = "map"
          /\ \E key \in StateKeys :
                \E b \in StateBatches(SENSOR_MAP(key).attribute_id) :
                    fn_in = [FnIdle EXCEPT !.batch = b, !.key = key]

\* solar_current's value_fn on the batch
ApplyRatio ==
    /\ fn_pc = "ratio"
    /\ fn_out' = value_fn(SENSOR_MAP("solar_current"), fn_in.batch)
    /\ fn_pc' = "ratio_done"
    /\ UNCHANGED fn_in
    /\ UNCHANGED sysVars

\* the gateway on a response that carries the series under attribute 81
ApplySeries ==
    /\ fn_pc = "series"
    /\ fn_out' = Get(async_get_latest_values(
                        OkResp(<<Item(<<"8", "1">>, fn_in.values)>>)).value, 81)
    /\ fn_pc' = "series_done"
    /\ UNCHANGED fn_in
    /\ UNCHANGED sysVars

\* the value a lookup-table sensor reads on the batch
ApplyMapState ==
    /\ fn_pc = "map"
    /\ fn_out' = native_value(SENSOR_MAP(fn_in.key), fn_in.batch)
    /\ fn_pc' = "map_done"
    /\ UNCHANGED fn_in
    /\ UNCHANGED sysVars

FnNext == ApplyRatio \/ ApplySeries \/ ApplyMapState

SpecFn == FnInit /\ [][FnNext]_vars

-----------------------------------------------------------------------------
(* What a sensor of the entry reads *)

\* the batches the gateway returns, one per fetch that raises nothing
FetchedBatches ==
    {async_get_latest_values(resp).value :
        resp \in {r \in Responses : async_get_latest_values(r).raised = ""}}

\* native_value: data = self.coordinator.data
SensorValue(key) == native_value(SENSOR_MAP(key), data.map)

\* available: data = self.coordinator.data, super() reads the coordinator
SensorAvailable(key) ==
    available(SENSOR_MAP(key), data.map, last_update_success)

\* the attribute ids a descriptor declares: attribute_id and requires
DeclaredIds(desc) ==
    (IF desc.attribute_id # NoAttr THEN {desc.attribute_id} ELSE {})
    \cup Range(desc.requires)

\* the attribute ids native_value and available look up in the batch
ReadIds(desc) ==
    (IF desc.value_fn # "none" THEN Range(desc.args) ELSE {})
    \cup (IF desc.attribute_id # NoAttr THEN {desc.attribute_id} ELSE {})

IsDerived(desc) == desc.attribute_id = NoAttr /\ desc.value_fn # "none"

-----------------------------------------------------------------------------
(* Claims *)

\* C1: a gateway authentication error (HTTP 401 or 403) ends the refresh in
\* ConfigEntryAuthFailed, any other gateway error (VictronApiError) ends it in
\* UpdateFailed, and neither outcome is ever reported for the other cause.
C1_AuthDistinctFromTransient ==
    /\ last_gw = "VictronApiAuthError" => last_outcome = "ConfigEntryAuthFailed"
    /\ last_status \in {401, 403} => last_outcome = "ConfigEntryAuthFailed"
    /\ last_gw = "VictronApiError" => last_outcome = "UpdateFailed"
    /\ last_outcome = "ConfigEntryAuthFailed" => last_status \in {401, 403}
    /\ last_outcome = "UpdateFailed" =>
          last_gw = "VictronApiError" /\ last_status \notin {401, 403}

\* a scheduled refresh of a loaded entry met HTTP 403
C1_Witness ==
    /\ entry_state = "loaded"
    /\ last_status = 403
    /\ last_outcome = "ConfigEntryAuthFailed"

\* C2: after a refresh that failed with a transient error, the cached batch is
\* the batch of the last successful refresh, every sensor value is computed
\* from that batch, and the next fetch is issued exactly one update interval
\* after the failed refresh ended.
C2_TransientKeepsSnapshot ==
    (entry_state = "loaded" /\ last_outcome = "UpdateFailed") =>
        /\ data.set /\ data = last_good
        /\ \A i \in 1..Len(runtime_data.descriptions) :
              SensorValue(runtime_data.descriptions[i])
                  = native_value(SENSOR_MAP(runtime_data.descriptions[i]),
                                 last_good.map)
        /\ pc = "idle" => timer >= 0 /\ timer + since_last = update_interval
        /\ pc = "refreshing" => since_last = update_interval

\* after a transient failure the next tick has issued a new fetch, the batch
\* of the earlier success still cached
C2_Witness ==
    /\ entry_state = "loaded"
    /\ last_outcome = "UpdateFailed"
    /\ pc = "refreshing"
    /\ data.set /\ DOMAIN data.map # {}
    /\ since_last = update_interval

\* C3: when the first refresh of async_setup_entry fails, setup ends in an
\* error and nothing is left behind: no runtime data on the entry, no platform
\* forwarded, no options-update listener.
C3_FailedSetupLeavesNothing ==
    (last_outcome \notin {"", "success"} /\ entry_state # "loaded"
        /\ pc = "idle") =>
        /\ setup_error \in {"ConfigEntryAuthFailed", "ConfigEntryNotReady"}
        /\ entry_state \in {"setup_retry", "setup_error"}
        /\ runtime_data = NoRuntime
        /\ forwarded = {}
        /\ entities = <<>>
        /\ ~listener

\* the first refresh failed with an authentication error
C3_Witness ==
    /\ setup_error = "ConfigEntryAuthFailed"
    /\ entry_state = "setup_error"
    /\ last_gw = "VictronApiAuthError"

\* C4: once async_setup_entry has succeeded, the sensor platform has added
\* exactly one sensor per active descriptor, bound to the coordinator and the
\* descriptors stored for the entry.
C4_OneSensorPerDescriptor ==
    entry_state = "loaded" =>
        /\ platform_error = ""
        /\ Len(entities) = Len(runtime_data.descriptions)
        /\ \A i \in 1..Len(entities) :
              entities[i].description = runtime_data.descriptions[i]

\* C5: a derived metric (no attribute id of its own) is available exactly when
\* its derivation returns a value on the cached batch.
C5_DerivedAvailableIffValue ==
    entry_state = "loaded" =>
        \A i \in 1..Len(runtime_data.descriptions) :
            LET key == runtime_data.descriptions[i]
            IN IsDerived(SENSOR_MAP(key)) =>
                  (SensorAvailable(key) <=> SensorValue(key) # Null)

\* C6: the attribute ids of every fetch are, without repetition, exactly the
\* ids the active descriptors declare (attribute_id and requires), which are
\* exactly the ids their value and availability rules read.
C6_RequestedIsRequiredSet ==
    pc \in {"first_refresh", "refreshing"} =>
        LET declared == UNION {DeclaredIds(SENSOR_MAP(descriptions[i])) :
                                  i \in 1..Len(descriptions)}
            read == UNION {ReadIds(SENSOR_MAP(descriptions[i])) :
                              i \in 1..Len(descriptions)}
        IN /\ runtime_data.stored => runtime_data.descriptions = descriptions
           /\ Range(requested) = declared
           /\ Len(requested) = Cardinality(declared)
           /\ read = declared

\* a fetch is in flight for a ratio metric alone: both its inputs are asked for
C6_Witness ==
    /\ pc = "refreshing"
    /\ descriptions = <<"solar_current">>
    /\ requested = <<86, 442>>

\* C7: the descriptor list built at setup holds the catalog descriptors of the
\* configured keys that the catalog knows, and is the whole catalog in
\* declared order when the keys are unset, empty or all unknown.
C7_ActiveDescriptors ==
    entry_state # "not_loaded" =>
        LET sel == setup_options.sensors
            known == Range(sel.keys) \cap SensorKeys
        IN IF ~sel.set \/ known = {}
           THEN /\ Len(descriptions) = Len(SENSOR_DESCRIPTIONS)
                /\ \A i \in 1..Len(descriptions) :
                      SENSOR_MAP(descriptions[i]) = SENSOR_DESCRIPTIONS[i]
           ELSE Range(descriptions) = known

\* setup ran on a selection of unknown keys only and fell back to the catalog
C7_Witness ==
    /\ entry_state = "loaded"
    /\ setup_options.sensors = Keys(<<"unknown_metric", "other_unknown">>)
    /\ descriptions = DEFAULT_SENSOR_KEYS

\* C8: every failure of the gateway's batch fetch is raised as
\* VictronApiAuthError (HTTP 401/403) or VictronApiError (everything else).
C8_OnlyTypedGatewayErrors ==
    /\ last_gw \in {"", "success", "VictronApiAuthError", "VictronApiError"}
    /\ last_gw = "VictronApiAuthError" <=> last_status \in {401, 403}

C10_RatioNullIffMissingOrZero ==
    fn_pc = "ratio_done" =>
        LET num == Get(fn_in.batch, 442)
            den == Get(fn_in.batch, 86)
        IN /\ fn_out = Null <=> (num = Null \/ den = Null \/ IsZero(den))
           /\ (num.k = "num" /\ den.k = "num" /\ ~IsZero(den)) =>
                 fn_out.n * den.n * num.d = num.n * den.d * fn_out.d

\* C10 amended: the ratio is null exactly when B[n] or B[d] is null or absent,
\* or is a string that float() rejects, or B[d] converts to zero; otherwise it
\* is float(B[n]) / float(B[d]).
C10_RatioNullIffUnusable ==
    fn_pc = "ratio_done" =>
        LET num == Get(fn_in.batch, 442)
            den == Get(fn_in.batch, 86)
            fnum == ToFloat(num)
            fden == ToFloat(den)
            unusable == \/ num = Null \/ den = Null
                        \/ ~fnum.ok \/ ~fden.ok
                        \/ fden.v.n = 0
        IN /\ fn_out = Null <=> unusable
           /\ ~unusable =>
                 /\ fn_out.k = "num"
                 /\ fn_out.n * fden.v.n * fnum.v.d = fnum.v.n * fden.v.d * fn_out.d

\* a numeric string over a number: the quotient of the converted values
C10_Witness ==
    /\ fn_pc = "ratio_done"
    /\ Get(fn_in.batch, 442) = Str(<<"1", ".", "5">>)
    /\ Get(fn_in.batch, 86) = Num(-1, 2)
    /\ fn_out = Num(-3, 1)

-----------------------------------------------------------------------------
\* C11: for every raw batch and each lookup-table descriptor (battery_state
\* over attribute 85, load_state over attribute 241): a raw value that is
\* present and casts to an integer of the table gives the table's label
\* (3 gives "Bulk" in the battery-state table); a raw value that is present
\* but gives no integer of the table gives "Unknown" (999 does); an absent
\* or null raw value gives null.
C11_TableLabelOrUnknownOrNull ==
    fn_pc = "map_done" =>
        LET id == IF fn_in.key = "battery_state" THEN 85 ELSE 241
            table == IF fn_in.key = "battery_state" THEN BATTERY_STATE_MAP
                     ELSE LOAD_STATE_MAP
            present == id \in DOMAIN fn_in.batch /\ fn_in.batch[id] # Null
            code == IF present THEN ToInt(fn_in.batch[id]) ELSE [ok |-> FALSE, v |-> 0]
            found == present /\ code.ok /\ code.v \in DOMAIN table
        IN /\ found => fn_out = Label(table[code.v])
           /\ (present /\ ~found) => fn_out = Label("Unknown")
           /\ ~present => fn_out = Null
           /\ (fn_in.key = "battery_state" /\ present /\ fn_in.batch[id] = Num(3, 1))
                  => fn_out = Label("Bulk")
           /\ (present /\ fn_in.batch[id] = Num(999, 1)) => fn_out = Label("Unknown")

C11_Witness ==
    /\ fn_pc = "map_done"
    /\ fn_in.key = "battery_state"
    /\ DOMAIN fn_in.batch = {85}
    /\ fn_in.batch[85] = Num(999, 1)
    /\ fn_out = Label("Unknown")

-----------------------------------------------------------------------------
-----------------------------------------------------------------------------
\* C13: once the stored options have been updated at runtime, every fetch
\* issued from then on (the reload the update calls for, if any, having
\* started) requests exactly the required attribute set of the active
\* descriptor list of the updated options: the ids of deactivated metrics
\* only are no longer requested, the ids of newly activated metrics are.
C13_FetchAfterUpdateRequestsNewSet ==
    [][(pc' \in {"first_refresh", "refreshing"} /\ pc' # pc /\ ~reload_pending')
          => LET active == BuildDescriptions(options')
             IN Range(requested')
                    = UNION {DeclaredIds(SENSOR_MAP(active[i])) : i \in 1..Len(active)}]_vars

-----------------------------------------------------------------------------
\* C14: the cached batch is replaced wholesale by the batch of one gateway
\* fetch: in every state, a refresh in flight included, the cached batch is
\* the complete batch of the last successful fetch, one fetch produced it,
\* and every metric of the installation computes its value from it.
C14_OneWholeBatch ==
    /\ data.set =>
          /\ data = last_good
          /\ data.map \in FetchedBatches
    /\ ~data.set => (data = NoData /\ last_good = NoData)
    /\ \A i \in 1..Len(runtime_data.descriptions) :
          SensorValue(runtime_data.descriptions[i])
              = native_value(SENSOR_MAP(runtime_data.descriptions[i]), last_good.map)

\* a refresh is in flight: the sensors still read the whole batch of the
\* fetch before it
C14_Witness ==
    /\ pc = "refreshing"
    /\ data.set
    /\ DOMAIN data.map = {81, 82}
    /\ runtime_data.stored
    /\ last_outcome = "success"
    /\ since_last > 0

\* C15: for every metric backed by a single attribute id (the direct metrics
\* and battery_state, load_state) and in every state of the coordinator,
\* after a failed refresh included, the metric is reported available if and
\* only if its attribute id is a key of the cached batch with a non-null
\* value.
C15_AttributeAvailability ==
    \A i \in 1..Len(runtime_data.descriptions) :
        LET key == runtime_data.descriptions[i]
            id == SENSOR_MAP(key).attribute_id
        IN id # NoAttr =>
              /\ SensorAvailable(key) <=> (id \in DOMAIN data.map /\ data.map[id] # Null)
              /\ key = "battery_state" => id = 85
              /\ key = "battery_voltage" => id = 81

\* after a failed refresh battery_state is still available on the cached
\* value of 85, and battery_voltage is not on the null cached under 81
C15_Witness ==
    /\ entry_state = "loaded"
    /\ last_outcome = "UpdateFailed"
    /\ ~last_update_success
    /\ \E i \in 1..Len(runtime_data.descriptions) :
          /\ runtime_data.descriptions[i] = "battery_state"
          /\ SensorAvailable("battery_state")
    /\ \E i \in 1..Len(runtime_data.descriptions) :
          /\ runtime_data.descriptions[i] = "battery_voltage"
          /\ 81 \in DOMAIN data.map
          /\ ~SensorAvailable("battery_voltage")

-----------------------------------------------------------------------------
\* C16: a step of the options flow writes an options record only when the
\* submitted selection, the keys outside the catalog dropped, is non-empty
\* and the submitted interval is at least 30 seconds; the record written
\* holds the catalog keys of the selection only. Every other submission
\* shows the form again with an error and leaves the stored options as they
\* were.
C16_FlowWritesOnlyValidRecords ==
    [][LET submitted == flow_result'.user_input
           kept == SelectSeq(submitted.sensors, LAMBDA key : key \in SensorKeys)
           valid == /\ submitted.has
                    /\ kept # <<>>
                    /\ submitted.scan_interval.k = "num"
                    /\ submitted.scan_interval.n >= 30 * submitted.scan_interval.d
           stepped == flow_result' # flow_result
       IN /\ options' # options =>
                /\ stepped /\ valid
                /\ flow_result'.type = "create_entry"
          /\ (stepped /\ valid) =>
                /\ flow_result'.type = "create_entry"
                /\ options'.sensors.set
                /\ options'.sensors.keys = kept
                /\ Range(options'.sensors.keys) \subseteq SensorKeys
                /\ options'.scan_interval.kind = "int"
                /\ options'.scan_interval.v >= 30
                /\ options'.scan_interval.v * submitted.scan_interval.d
                        <= submitted.scan_interval.n
                /\ (options'.scan_interval.v + 1) * submitted.scan_interval.d
                        > submitted.scan_interval.n
          /\ (stepped /\ submitted.has /\ ~valid) =>
                /\ flow_result'.type = "form"
                /\ flow_result'.error \in {"select_sensor", "interval_too_short"}
                /\ options' = options]_vars

\* a selection of a catalog key and an unknown key with 30.5 seconds was
\* stored as that catalog key with 30 seconds
C16_Witness ==
    /\ flow_result.type = "create_entry"
    /\ flow_result.user_input.sensors = <<"solar_current", "unknown_metric">>
    /\ options = Options(Keys(<<"solar_current">>), IntInterval(30))

====
